---- MODULE Spec2Model ----
(***************************************************************************)
(* Model of the thumbnail subsystem of MarkerEditorForPlex:                *)
(*   CacheMap (aging cache), BifThumbnailManager (index-backed source),    *)
(*   FfmpegThumbnailManager (on-demand source) and the ThumbnailManager    *)
(*   singleton, all of src/Client/Script/ThemeColors.js.                   *)
(***************************************************************************)
EXTENDS Integers, Sequences, FiniteSets, TLC

\* ------------------------------------------------------------------------
\* Bounds of the model
\* ------------------------------------------------------------------------
MaxItems == 2
MaxBuf == 1
MaxSince == 21
MaxProcs == 2
MaxCalls == 3
MaxFrames == 3
MaxInterval == 2
MaxSeconds == 7
MaxFetches == 3
MaxMinutes == 1
MaxFill == 250
MaxMtime == 2
MaxDiskCalls == 225
MaxClicks == 5

\* no purge view is on screen
NoPurge == [kind |-> "none"]

\* ------------------------------------------------------------------------
\* Program constants
\* ------------------------------------------------------------------------
maxCache == 200
maxTick == 20

\* the longest run of operations followed for the eviction of one sub-entry
EvictSince == maxTick * (maxCache + 1) + 1

Items == 1..MaxItems
\* the sub-keys clients use for an item: item 1 has the most frames
KeysOf(id) == 0..(MaxItems - id)
SubEntries == {e \in Items \X (0..MaxItems) : e[2] \in KeysOf(e[1])}
Buffers == {<<b>> : b \in 1..MaxBuf}

VARIABLES
    tick,        \* CacheMap.#tick
    cacheMap,    \* CacheMap.#cacheMap : metadataId -> MediaItemCache
    lastOp,      \* observation: the cache operation performed by the last step
    watch,       \* observation: the sub-entry X that is being followed
    since,       \* observation: successful cache operations since X's last access
    rankAtTouch, \* observation: rank of X right after its last access
    Instance,    \* the singleton: "null", "bif" or "ffmpeg"
    usePrecise,  \* Config.usePreciseThumbnails()
    chosen,      \* observation: the kind of the first manager created
    calls,       \* the hasThumbnails / getThumbnail calls in flight, per caller
    budget,      \* number of calls that may still be started
    present,     \* the media parts whose backing file is on disk
    mtime,       \* modification time of each part's index file
    mediaDuration, \* media.duration of each part, in ms
    bifFile,     \* contents of each part's index-sd.bif
    disk,        \* generated frame files of the cache folder: <<id, ts>> -> bytes
    lastEvt,     \* observation: what the last manager step did
    lastHas,     \* observation: last resolved hasThumbnails result per item
    purge        \* a PurgeOptions with its owner (a PurgeRow or a BulkPurgeAction)

cacheVars == <<tick, cacheMap>>
\* (the purge view is part of both groups: neither the cache operations nor
\* the thumbnail managers touch it)
obsVars == <<lastOp, watch, since, rankAtTouch, purge>>
envVars == <<present, mtime, mediaDuration, bifFile, disk>>
mgrVars == <<Instance, usePrecise, chosen, calls, budget, present, mtime, mediaDuration, bifFile, disk,
             lastEvt, lastHas, purge>>
vars == <<tick, cacheMap, lastOp, watch, since, rankAtTouch, Instance, usePrecise, chosen,
          calls, budget, present, mtime, mediaDuration, bifFile, disk, lastEvt, lastHas,
          purge>>

\* ------------------------------------------------------------------------
\* CacheMap
\* ------------------------------------------------------------------------
\* new CachedThumbnail(buffer, rank)
CachedThumbnail(buffer, rank) == [data |-> buffer, rank |-> rank]

\* new MediaItemCache(hasThumbs): no thumbnails cached yet
MediaItemCache(hasThumbs) == [hasThumbs |-> hasThumbs, cachedThumbnails |-> <<>>]

\* A cache object: the pair of the private fields that the operations change.
Cache(t, m) == [tick |-> t, cacheMap |-> m]

\* variant: the sweep takes a single unit off each rank
sweepItem_byOne(item) ==
    LET old == item.cachedThumbnails
        kept == {k \in DOMAIN old : old[k].rank - 1 > 0}
    IN [item EXCEPT !.cachedThumbnails =
            [k \in kept |-> [old[k] EXCEPT !.rank = old[k].rank - 1]]]

\* variant: the sweep stops decaying at rank 1 and never deletes
sweepItem_neverDeletes(item) ==
    LET old == item.cachedThumbnails
    IN [item EXCEPT !.cachedThumbnails =
            [k \in DOMAIN old |->
                [old[k] EXCEPT !.rank =
                    IF old[k].rank - maxTick > 0 THEN old[k].rank - maxTick ELSE 1]]]

\* variant: the sweep lowers the ranks and deletes nothing
sweepItem_keepsExpired(item) ==
    LET old == item.cachedThumbnails
    IN [item EXCEPT !.cachedThumbnails =
            [k \in DOMAIN old |-> [old[k] EXCEPT !.rank = old[k].rank - maxTick]]]

\* variant: a thumbnail is deleted one sweep early, when its rank reaches 1
sweepItem_offByOne(item) ==
    LET old == item.cachedThumbnails
        kept == {k \in DOMAIN old : old[k].rank - maxTick > 1}
    IN [item EXCEPT !.cachedThumbnails =
            [k \in kept |-> [old[k] EXCEPT !.rank = old[k].rank - maxTick]]]

\* variant: the sweep takes half a tick threshold off each rank
sweepItem_halfDecay(item) ==
    LET old == item.cachedThumbnails
        kept == {k \in DOMAIN old : old[k].rank - (maxTick \div 2) > 0}
    IN [item EXCEPT !.cachedThumbnails =
            [k \in kept |-> [old[k] EXCEPT !.rank = old[k].rank - (maxTick \div 2)]]]

\* The sweep of #touch over one item: rank -= maxTick, delete when <= 0.
sweepItem(item) ==
    LET old == item.cachedThumbnails
        kept == {k \in DOMAIN old : old[k].rank - maxTick > 0}
    IN [item EXCEPT !.cachedThumbnails =
            [k \in kept |-> [old[k] EXCEPT !.rank = old[k].rank - maxTick]]]

\* variant: the sweep runs one access late, once the tick has passed maxTick
touch_sweepsLate(c) ==
    IF c.tick + 1 <= maxTick
    THEN [c EXCEPT !.tick = c.tick + 1]
    ELSE Cache(0, [id \in DOMAIN c.cacheMap |-> sweepItem(c.cacheMap[id])])

\* variant: the sweep forgets to reset the tick counter
touch_noReset(c) ==
    IF c.tick + 1 # maxTick
    THEN [c EXCEPT !.tick = c.tick + 1]
    ELSE Cache(c.tick + 1, [id \in DOMAIN c.cacheMap |-> sweepItem(c.cacheMap[id])])

\* CacheMap.#touch
touch(c) ==
    IF c.tick + 1 # maxTick
    THEN [c EXCEPT !.tick = c.tick + 1]
    ELSE Cache(0, [id \in DOMAIN c.cacheMap |-> sweepItem(c.cacheMap[id])])

\* CacheMap._addItem
addItem(c, metadataId, episodeCache) ==
    [c EXCEPT !.cacheMap =
        [id \in DOMAIN c.cacheMap \cup {metadataId} |->
            IF id = metadataId THEN episodeCache ELSE c.cacheMap[id]]]

\* variant: a record without thumbnails counts as no record
hasItem_onlyPositive(c, metadataId) ==
    metadataId \in DOMAIN c.cacheMap /\ c.cacheMap[metadataId].hasThumbs

\* CacheMap.getItem: the item record, or FALSE
hasItem(c, metadataId) == metadataId \in DOMAIN c.cacheMap

\* does the item hold a thumbnail under this key
hasThumb(c, metadataId, timestamp) ==
    /\ metadataId \in DOMAIN c.cacheMap
    /\ timestamp \in DOMAIN c.cacheMap[metadataId].cachedThumbnails

\* variant: the thumbnail is not stored
add_dropsNew(c, metadataId, timestamp, buffer) ==
    IF ~hasItem(c, metadataId) THEN c ELSE touch(c)

\* CacheMap.add
add(c, metadataId, timestamp, buffer) ==
    IF ~hasItem(c, metadataId)
    THEN c
    ELSE LET t == touch(c)
             old == t.cacheMap[metadataId].cachedThumbnails
         IN [t EXCEPT !.cacheMap[metadataId].cachedThumbnails =
                [k \in DOMAIN old \cup {timestamp} |->
                    IF k = timestamp
                    THEN CachedThumbnail(buffer, maxCache + 1)
                    ELSE old[k]]]

\* variant: a lookup that finds nothing counts as an access as well
tryGetCache_touchesOnMiss(c, metadataId, timestamp) ==
    IF ~hasThumb(c, metadataId, timestamp)
    THEN touch(c)
    ELSE touch([c EXCEPT
            !.cacheMap[metadataId].cachedThumbnails[timestamp].rank = maxCache + 1])

\* CacheMap.tryGet: the cache after the call
tryGetCache(c, metadataId, timestamp) ==
    IF ~hasThumb(c, metadataId, timestamp)
    THEN c
    ELSE touch([c EXCEPT
            !.cacheMap[metadataId].cachedThumbnails[timestamp].rank = maxCache + 1])

\* CacheMap.tryGet: the value returned (<<>> stands for false)
tryGetResult(c, metadataId, timestamp) ==
    IF ~hasThumb(c, metadataId, timestamp)
    THEN <<>>
    ELSE c.cacheMap[metadataId].cachedThumbnails[timestamp].data

\* ------------------------------------------------------------------------
\* Observation of a followed sub-entry X = watch
\* ------------------------------------------------------------------------
NoOp == [kind |-> "none", id |-> 0, key |-> 0, ok |-> FALSE, deleted |-> 0]
Op(kind, id, key, ok, deleted) ==
    [kind |-> kind, id |-> id, key |-> key, ok |-> ok, deleted |-> deleted]

\* the sub-entries a cache map holds, as (item, key) pairs
entriesOf(m) ==
    UNION {{<<id, k>> : k \in DOMAIN m[id].cachedThumbnails} : id \in DOMAIN m}

\* the observation after a cache operation on (id, key) that led to cache c2
Observe(kind, id, key, ok, c2) ==
    /\ lastOp' = Op(kind, id, key, ok,
                    Cardinality(entriesOf(cacheMap) \ entriesOf(c2.cacheMap)))
    /\ watch' = watch
    /\ purge' = purge
    /\ IF ok /\ <<id, key>> = watch
       THEN /\ since' = 0
            /\ rankAtTouch' = c2.cacheMap[id].cachedThumbnails[key].rank
       ELSE /\ since' = IF ok THEN since + 1 ELSE since
            /\ rankAtTouch' = rankAtTouch

\* ------------------------------------------------------------------------
\* The index-sd.bif file and BifThumbnailManager.#readThumbnail
\* ------------------------------------------------------------------------
\* An index file: the 32-bit thumbnail count at 0xC, the 8-byte records of the
\* index table at 0x40 (raw unsigned words) and the length of the whole file.
BifFile(count, recs, length) == [count |-> count, recs |-> recs, length |-> length]
BifRecord(ts, off) == [ts |-> ts, off |-> off]

\* a raw little-endian 32-bit word of the file, as its two 16-bit halves
Word(n) == [hi |-> n \div 65536, lo |-> n % 65536]
AllOnes == [hi |-> 65535, lo |-> 65535]
Record(seconds, offset) == BifRecord(Word(seconds), Word(offset))

\* Buffer.readInt32LE: a raw 32-bit word read as a signed integer
readInt32LE(word) ==
    IF word.hi >= 32768 THEN (word.hi - 65536) * 65536 + word.lo
    ELSE word.hi * 65536 + word.lo

\* records of the index table that the model holds
inTable(data, index) == index >= 0 /\ index < Len(data.recs)

\* getOffset / getTimestamp of #readThumbnail (index inside the table)
getOffset(data, index) == readInt32LE(data.recs[index + 1].off)
getTimestamp(data, index) == readInt32LE(data.recs[index + 1].ts)

\* variant: the quotient is rounded to the next index
floorDiv_roundsUp(timestamp, interval) ==
    IF interval > 0 THEN (timestamp \div interval) + 1
    ELSE ((0 - timestamp) \div (0 - interval)) + 1

\* Math.floor(timestamp / interval) for a non-zero interval
floorDiv(timestamp, interval) ==
    IF interval > 0 THEN timestamp \div interval ELSE (0 - timestamp) \div (0 - interval)

\* the outcomes of the readFile callback
Resolved(index, interval, start, end) ==
    [kind |-> "resolve", index |-> index, interval |-> interval,
     buf |-> <<start, end>>, reason |-> ""]
Rejected(reason, interval) ==
    [kind |-> "reject", index |-> 0, interval |-> interval, buf |-> <<>>,
     reason |-> reason]
\* an exception inside the callback: the promise is never settled
Thrown(interval) ==
    [kind |-> "throw", index |-> 0, interval |-> interval, buf |-> <<>>, reason |-> ""]

\* variant: the out-of-bounds request is clamped one record too far
clampIndex_pastEnd(index, maxIndex) ==
    IF index > maxIndex THEN maxIndex + 1
    ELSE IF index < 0 THEN 0
    ELSE index

\* the clamp of the frame index to [0, maxIndex]
clampIndex(index, maxIndex) ==
    IF index > maxIndex THEN maxIndex
    ELSE IF index < 0 THEN 0
    ELSE index

\* the reads of getOffset that succeed: a record of the table, or for index
\* -1 (a frame count of 0) the last reserved word of the header at 0x3C,
\* which is 0
readable(data, index) ==
    inTable(data, index) \/ (index = 0 - 1 /\ data.length >= 64)
offsetAt(data, index) == IF index = 0 - 1 THEN 0 ELSE getOffset(data, index)

\* variant: the frame always ends at the next record's offset, and the span
\* of the last frame is left empty
frameSpan_emptyLast(data, index, interval, maxIndex) ==
    IF ~readable(data, index) \/ (index # maxIndex /\ ~inTable(data, index + 1))
    THEN Thrown(interval)
    ELSE LET thumbStart == offsetAt(data, index)
             thumbEnd == IF index = maxIndex THEN thumbStart
                         ELSE getOffset(data, index + 1)
         IN IF thumbEnd - thumbStart < 0 \/ thumbStart > data.length
            THEN Thrown(interval)
            ELSE Resolved(index, interval, thumbStart,
                          IF thumbEnd > data.length THEN data.length ELSE thumbEnd)

\* thumbStart / thumbEnd, Buffer.alloc and data.copy for a clamped index
frameSpan(data, index, interval, maxIndex) ==
    IF ~readable(data, index) \/ (index # maxIndex /\ ~inTable(data, index + 1))
    THEN Thrown(interval)
    ELSE LET thumbStart == offsetAt(data, index)
             thumbEnd == IF index = maxIndex THEN data.length
                         ELSE getOffset(data, index + 1)
         IN IF thumbEnd - thumbStart < 0 \/ thumbStart > data.length
            THEN Thrown(interval)
            ELSE Resolved(index, interval, thumbStart,
                          IF thumbEnd > data.length THEN data.length ELSE thumbEnd)

\* the frame for Math.floor(timestamp / interval), which for interval 0 is
\* Infinity, -Infinity or NaN (NaN passes both comparisons of the clamp)
frameAt(data, interval, timestamp) ==
    LET maxIndex == readInt32LE(data.count) - 1
    IN IF interval = 0
       THEN IF timestamp = 0 THEN Thrown(interval)
            ELSE frameSpan(data, IF timestamp > 0 THEN maxIndex ELSE 0, interval, maxIndex)
       ELSE frameSpan(data, clampIndex(floorDiv(timestamp, interval), maxIndex),
                      interval, maxIndex)

\* variant: the first record is not verified
parseFrame_noVerify(data, cachedInterval, timestamp) ==
    IF cachedInterval # 0 THEN frameAt(data, cachedInterval, timestamp)
    ELSE IF ~inTable(data, 1) THEN Thrown(0)
    ELSE frameAt(data, getTimestamp(data, 1), timestamp)

\* The body of the readFile callback of #readThumbnail for file contents data,
\* the interval recorded for the item (0: not yet discovered) and a timestamp
\* in seconds.
parseFrame(data, cachedInterval, timestamp) ==
    IF cachedInterval # 0 THEN frameAt(data, cachedInterval, timestamp)
    ELSE IF ~inTable(data, 0) THEN Thrown(0)
    ELSE IF getTimestamp(data, 0) # 0
    THEN Rejected("Unexpected thumbnail file contents", 0)
    ELSE IF ~inTable(data, 1) THEN Thrown(0)
    ELSE frameAt(data, getTimestamp(data, 1), timestamp)

\* Index files as Plex writes them: count frames every interval seconds, frame
\* i at base + i * size, then the closing record (0xFFFFFFFF, end of file).
PlexBif(count, interval, base, size) ==
    BifFile(Word(count),
            [i \in 1..(count + 1) |->
                IF i <= count THEN Record((i - 1) * interval, base + (i - 1) * size)
                ELSE BifRecord(AllOnes, Word(base + count * size))],
            base + count * size)

\* the file of the end-to-end scenario: records (0,0x40) (2,0x1000) (4,0x2000),
\* length 0x3000
ScenarioBif ==
    BifFile(Word(3), <<Record(0, 64), Record(2, 4096), Record(4, 8192)>>, 12288)

\* a file whose first record does not start at 0 seconds
ShiftedBif(data, by) ==
    [data EXCEPT !.recs = [i \in DOMAIN data.recs |->
        IF i <= readInt32LE(data.count)
        THEN BifRecord(Word(readInt32LE(data.recs[i].ts) + by), data.recs[i].off)
        ELSE data.recs[i]]]

ValidBifs ==
    {ScenarioBif} \cup
    {PlexBif(n, iv, 64 + 8 * (n + 1), 100) : n \in 1..MaxFrames, iv \in 1..MaxInterval}
CorruptBifs == {ShiftedBif(f, by) : f \in ValidBifs, by \in 1..MaxInterval}
BifFiles == ValidBifs \cup CorruptBifs

\* Damaged index files: the table cut after k records and the file with it,
\* a header whose frame count is 0, offsets that do not increase, and the
\* file of a stream without frames
CutBif(data, k) == BifFile(data.count, SubSeq(data.recs, 1, k), 64 + 8 * k)
ZeroCountBif(data) == [data EXCEPT !.count = Word(0)]
ReversedBif(data) ==
    [data EXCEPT !.recs = [i \in DOMAIN data.recs |->
        BifRecord(data.recs[i].ts, data.recs[Len(data.recs) + 1 - i].off)]]
BrokenBifs ==
    UNION {{CutBif(f, k) : k \in 0..(Len(f.recs) - 1)} : f \in ValidBifs} \cup
    {ZeroCountBif(f) : f \in ValidBifs} \cup
    {ReversedBif(f) : f \in ValidBifs} \cup
    {PlexBif(0, iv, 72, 100) : iv \in 1..MaxInterval}

\* ------------------------------------------------------------------------
\* Environment: database rows, files on disk, callers
\* ------------------------------------------------------------------------
Procs == 1..MaxProcs

\* media parts of an item (database rows): item 1 has the most versions
PartsOf(id) == MaxItems - id + 1
Paths == {q \in Items \X (1..MaxItems) : q[2] <= PartsOf(q[1])}
NoPath == <<0, 0>>

\* media.duration of a part in ms; the file query orders the rows by it, DESC
DurationOf(q) == (PartsOf(q[1]) - q[2] + 1) * 60000

\* a caller: where its call stands, and (observation) the buckets that other
\* callers have generated while its own call was waiting
IdleCall ==
    [pc |-> "idle", op |-> "none", id |-> 0, ms |-> 0, ts |-> 0, path |-> NoPath,
     ref |-> 0, seen |-> {}]
NoEvt == [p |-> 0, op |-> "none", id |-> 0, ms |-> 0, ts |-> 0, io |-> {},
          settled |-> "none", bool |-> FALSE, buf |-> <<>>, reason |-> "",
          seen |-> {}]

\* no manager exists: the state of the module before ThumbnailManager.Create
NoManager ==
    /\ purge = NoPurge
    /\ Instance = "null"
    /\ usePrecise = FALSE
    /\ chosen = "null"
    /\ calls = [p \in Procs |-> IdleCall]
    /\ budget = 0
    /\ present = {}
    /\ mtime = [q \in Paths |-> 1]
    /\ mediaDuration = [q \in Paths |-> DurationOf(q)]
    /\ bifFile = [q \in Paths |-> <<>>]
    /\ disk = <<>>
    /\ lastEvt = NoEvt
    /\ lastHas = [id \in Items |-> "none"]

\* ------------------------------------------------------------------------
\* ThumbnailManager, BifThumbnailManager, FfmpegThumbnailManager
\* ------------------------------------------------------------------------
\* new BifMediaItemCache(hasThumbs, bifPath); ref is the identity of the object
BifMediaItemCache(hasThumbs, bifPath, ref) ==
    [hasThumbs |-> hasThumbs, cachedThumbnails |-> <<>>, path |-> bifPath,
     interval |-> 0, duration |-> 0, ref |-> ref]

\* new FfmpegMediaItemCache(hasThumbs, filePath, duration)
FfmpegMediaItemCache(hasThumbs, filePath, duration, ref) ==
    [hasThumbs |-> hasThumbs, cachedThumbnails |-> <<>>, path |-> filePath,
     interval |-> 0, duration |-> duration, ref |-> ref]

\* the newest index file among the rows up to part i, as the loop over the
\* rows computes it: newest starts as { path: '', mtime: 0 } and a file
\* replaces it only with a strictly greater mtimeMs
RECURSIVE newestOf(_, _)
newestOf(id, i) ==
    IF i = 0 THEN [path |-> NoPath, mtime |-> 0]
    ELSE LET before == newestOf(id, i - 1)
         IN IF <<id, i>> \in present /\ mtime[<<id, i>>] > before.mtime
            THEN [path |-> <<id, i>>, mtime |-> mtime[<<id, i>>]]
            ELSE before

newestBif(id, i) == newestOf(id, i).path

\* variant: the last existing row is taken, not the first
RECURSIVE firstFile_last(_, _)
firstFile_last(id, i) ==
    IF i > PartsOf(id) THEN NoPath
    ELSE LET rest == firstFile_last(id, i + 1)
         IN IF rest # NoPath THEN rest
            ELSE IF <<id, i>> \in present THEN <<id, i>> ELSE NoPath

\* the first row, in query order, whose file exists (existsSync per row)
RECURSIVE firstFile(_, _)
firstFile(id, i) ==
    IF i > PartsOf(id) THEN NoPath
    ELSE IF <<id, i>> \in present THEN <<id, i>>
    ELSE firstFile(id, i + 1)

\* an object identity that no read in flight for this item still holds
freshRef(id) ==
    CHOOSE n \in 1..(MaxProcs + 1) :
        /\ \A p \in Procs : ~(calls[p].pc = "read" /\ calls[p].id = id /\ calls[p].ref = n)
        /\ \A m \in 1..(n - 1) :
              \E p \in Procs : calls[p].pc = "read" /\ calls[p].id = id /\ calls[p].ref = m

\* hasThumbnails after the database query: the file checks and addItem
probe(c, id) ==
    IF Instance = "bif"
    THEN LET newest == newestBif(id, PartsOf(id))
         IN addItem(c, id, BifMediaItemCache(newest # NoPath, newest, freshRef(id)))
    ELSE LET file == firstFile(id, 1)
         IN addItem(c, id, FfmpegMediaItemCache(file # NoPath, file,
                IF file = NoPath THEN 0 ELSE mediaDuration[file], freshRef(id)))

Evt(p, op, id, ms, ts, io, settled) ==
    [p |-> p, op |-> op, id |-> id, ms |-> ms, ts |-> ts, io |-> io,
     settled |-> settled, bool |-> FALSE, buf |-> <<>>, reason |-> "", seen |-> {}]

BoolStr(b) == IF b THEN "true" ELSE "false"

allIdle == \A p \in Procs : calls[p].pc = "idle"

\* the backend that Create instantiates for a value of the configuration flag
kindOf(precise) == IF precise THEN "ffmpeg" ELSE "bif"

\* ThumbnailManager.Create: a new instance with an empty cache, whether or
\* not an instance exists already
Create ==
    /\ allIdle
    /\ Instance' = kindOf(usePrecise)
    /\ chosen' = IF chosen = "null" THEN kindOf(usePrecise) ELSE chosen
    /\ tick' = 0
    /\ cacheMap' = <<>>
    /\ lastHas' = [id \in Items |-> "none"]
    /\ lastEvt' = Evt(0, "create", 0, 0, 0, {}, "none")
    /\ UNCHANGED <<usePrecise, calls, budget, present, mtime, mediaDuration, bifFile, disk>>
    /\ UNCHANGED obsVars

\* what close did: a full shutdown, the rmSync call, its failure
closeIo(fullShutdown, rmFails) ==
    (IF fullShutdown THEN {"full"} ELSE {}) \cup
    (IF Instance = "ffmpeg" /\ fullShutdown /\ DOMAIN disk # {}
     THEN (IF rmFails THEN {"rm", "rmfail"} ELSE {"rm"}) ELSE {})

\* variant: the cache folder is wiped by every close
Close_wipesAlways(fullShutdown, rmFails) ==
    /\ allIdle
    /\ Instance # "null"
    /\ Instance' = "null"
    /\ tick' = 0
    /\ cacheMap' = <<>>
    /\ disk' = IF Instance = "ffmpeg" /\ ~rmFails THEN <<>> ELSE disk
    /\ lastHas' = [id \in Items |-> "none"]
    /\ lastEvt' = Evt(0, "close", 0, 0, 0, closeIo(fullShutdown, rmFails), "return")
    /\ UNCHANGED <<usePrecise, chosen, calls, budget, present, mtime, mediaDuration, bifFile>>
    /\ UNCHANGED obsVars

\* variant: the cache folder is left alone on a full shutdown
Close_keepsFiles(fullShutdown, rmFails) ==
    /\ allIdle
    /\ Instance # "null"
    /\ Instance' = "null"
    /\ tick' = 0
    /\ cacheMap' = <<>>
    /\ disk' = disk
    /\ lastHas' = [id \in Items |-> "none"]
    /\ lastEvt' = Evt(0, "close", 0, 0, 0, closeIo(fullShutdown, rmFails), "return")
    /\ UNCHANGED <<usePrecise, chosen, calls, budget, present, mtime, mediaDuration, bifFile>>
    /\ UNCHANGED obsVars

\* ThumbnailManager.Close and FfmpegThumbnailManager.close; rmSync can fail,
\* which is caught and logged
Close(fullShutdown, rmFails) ==
    /\ allIdle
    /\ Instance # "null"
    /\ Instance' = "null"
    /\ tick' = 0
    /\ cacheMap' = <<>>
    /\ disk' = IF Instance = "ffmpeg" /\ fullShutdown /\ ~rmFails THEN <<>> ELSE disk
    /\ lastHas' = [id \in Items |-> "none"]
    /\ lastEvt' = Evt(0, "close", 0, 0, 0, closeIo(fullShutdown, rmFails), "return")
    /\ UNCHANGED <<usePrecise, chosen, calls, budget, present, mtime, mediaDuration, bifFile>>
    /\ UNCHANGED obsVars

\* a call of p is over: its result is in lastEvt and the caller is free again
Finish(p, evt) ==
    /\ calls' = [calls EXCEPT ![p] = IdleCall]
    /\ lastEvt' = evt

\* hasThumbnails(metadataId) up to its first await
HasStart(p, id) ==
    /\ Instance # "null"
    /\ calls[p].pc = "idle"
    /\ budget > 0
    /\ budget' = budget - 1
    /\ IF hasItem(Cache(tick, cacheMap), id)
       THEN /\ Finish(p, [Evt(p, "has", id, 0, 0, {}, "resolve")
                            EXCEPT !.bool = cacheMap[id].hasThumbs])
            /\ lastHas' = [lastHas EXCEPT ![id] = BoolStr(cacheMap[id].hasThumbs)]
       ELSE /\ calls' = [calls EXCEPT ![p] = [IdleCall EXCEPT
                            !.pc = "hasDb", !.op = "has", !.id = id]]
            /\ lastEvt' = Evt(p, "has", id, 0, 0, {"db"}, "none")
            /\ lastHas' = lastHas
    /\ UNCHANGED <<Instance, usePrecise, chosen, tick, cacheMap, present, mtime, mediaDuration, bifFile, disk>>
    /\ UNCHANGED obsVars

\* hasThumbnails after the rows have arrived
HasResume(p) ==
    /\ calls[p].pc = "hasDb"
    /\ LET id == calls[p].id
           c2 == probe(Cache(tick, cacheMap), id)
       IN /\ cacheMap' = c2.cacheMap
          /\ tick' = c2.tick
          /\ Finish(p, [Evt(p, "has", id, 0, 0, {"stat"}, "resolve")
                            EXCEPT !.bool = c2.cacheMap[id].hasThumbs])
          /\ lastHas' = [lastHas EXCEPT ![id] = BoolStr(c2.cacheMap[id].hasThumbs)]
    /\ UNCHANGED <<Instance, usePrecise, chosen, budget, present, mtime, mediaDuration, bifFile, disk>>
    /\ UNCHANGED obsVars

\* the frame that ffmpeg writes for an item at a seek offset
Frame(id, timestamp) == <<id, timestamp>>

\* variant: the timestamp is not kept away from the end of the stream
bucketOf_noClamp(maxDuration, timestamp) == (timestamp \div 100) * 100

\* variant: the timestamp is not rounded down to a tenth of a second
bucketOf_noRounding(maxDuration, timestamp) ==
    IF maxDuration - 1000 < timestamp THEN maxDuration - 1000 ELSE timestamp

\* Math.round(Math.min(maxDuration - 1000, Math.floor(timestamp / 100) * 100))
bucketOf(maxDuration, timestamp) ==
    LET floored == (timestamp \div 100) * 100
    IN IF maxDuration - 1000 < floored THEN maxDuration - 1000 ELSE floored

\* the guard of #getThumbnailCore: no record, or a record without thumbnails
noThumbnails(c, id) == ~hasItem(c, id) \/ ~c.cacheMap[id].hasThumbs

\* BifThumbnailManager.#getThumbnailCore on cache c, up to the readFile call
\* of #readThumbnail; timestamp is in seconds
BifCore(p, c, id, ms, timestamp, io) ==
    LET thumbCache == c.cacheMap[id]
        index == floorDiv(timestamp, thumbCache.interval)
    IN /\ disk' = disk
       /\ IF noThumbnails(c, id)
          THEN /\ Finish(p, [Evt(p, "get", id, ms, timestamp, io, "reject")
                                EXCEPT !.reason = "No thumbnails"])
               /\ tick' = c.tick
               /\ cacheMap' = c.cacheMap
          ELSE IF thumbCache.interval # 0 /\ hasThumb(c, id, index)
          THEN /\ Finish(p, [Evt(p, "get", id, ms, timestamp, io, "resolve")
                                EXCEPT !.buf = tryGetResult(c, id, index)])
               /\ tick' = tryGetCache(c, id, index).tick
               /\ cacheMap' = tryGetCache(c, id, index).cacheMap
          ELSE /\ calls' = [calls EXCEPT ![p] =
                    [pc |-> "read", op |-> "get", id |-> id, ms |-> ms, ts |-> timestamp,
                     path |-> thumbCache.path, ref |-> thumbCache.ref, seen |-> {}]]
               /\ lastEvt' = Evt(p, "get", id, ms, timestamp, io, "none")
               /\ tick' = c.tick
               /\ cacheMap' = c.cacheMap

\* how the ffmpeg subprocess can end: exit 0 with the frame written, an error
\* or the timeout before any output, an error or the timeout with the output
\* file already begun
ExecOutcomes == {"ok", "fail", "partial"}

\* what is left of a frame file whose writer was stopped
Truncated(data) == SubSeq(data, 1, Len(data) - 1)

\* variant: a file that holds less than the frame counts as missing
fileCached_onlyComplete(d, saveFile) ==
    saveFile \in DOMAIN d /\ d[saveFile] = <<saveFile[1], saveFile[2]>>

\* variant: the cache folder is never consulted
fileCached_never(d, saveFile) == FALSE

\* existsSync(saveFile)
fileCached(d, saveFile) == saveFile \in DOMAIN d

\* the cache folder after saveFile has been written
written(d, saveFile, data) ==
    [f \in DOMAIN d \cup {saveFile} |-> IF f = saveFile THEN data ELSE d[f]]

\* p's call is over after it has generated a frame: the callers whose own
\* call for the item is still waiting note the bucket
FinishGenerated(p, evt, id, timestamp) ==
    /\ calls' = [q \in Procs |->
            IF q = p THEN IdleCall
            ELSE IF calls[q].pc = "getDb" /\ calls[q].id = id
            THEN [calls[q] EXCEPT !.seen = @ \cup {timestamp}]
            ELSE calls[q]]
    /\ lastEvt' = evt

\* FfmpegThumbnailManager.#getThumbnailCore and #fileCacheOrGenerate on cache
\* c; exec: how the ffmpeg subprocess ends, if it is run
FfmpegCore(p, c, id, ms, io, exec) ==
    IF noThumbnails(c, id)
    THEN /\ Finish(p, [Evt(p, "get", id, ms, ms, io, "reject")
                          EXCEPT !.reason = "No thumbnails"])
         /\ tick' = c.tick
         /\ cacheMap' = c.cacheMap
         /\ disk' = disk
    ELSE LET timestamp == bucketOf(c.cacheMap[id].duration, ms)
             saveFile == <<id, timestamp>>
             evt(io2, settled) ==
                [Evt(p, "get", id, ms, timestamp, io \cup io2, settled)
                    EXCEPT !.seen = calls[p].seen]
         IN IF hasThumb(c, id, timestamp)
            THEN /\ Finish(p, [evt({}, "resolve")
                                  EXCEPT !.buf = tryGetResult(c, id, timestamp)])
                 /\ tick' = tryGetCache(c, id, timestamp).tick
                 /\ cacheMap' = tryGetCache(c, id, timestamp).cacheMap
                 /\ disk' = disk
            ELSE IF fileCached(disk, saveFile)
            THEN /\ Finish(p, [evt({"cachefile"}, "resolve")
                                  EXCEPT !.buf = disk[saveFile]])
                 /\ tick' = add(c, id, timestamp, disk[saveFile]).tick
                 /\ cacheMap' = add(c, id, timestamp, disk[saveFile]).cacheMap
                 /\ disk' = disk
            ELSE IF exec = "ok"
            THEN /\ FinishGenerated(p, [evt({"exec"}, "resolve")
                                  EXCEPT !.buf = Frame(id, timestamp)], id, timestamp)
                 /\ tick' = add(c, id, timestamp, Frame(id, timestamp)).tick
                 /\ cacheMap' = add(c, id, timestamp, Frame(id, timestamp)).cacheMap
                 /\ disk' = written(disk, saveFile, Frame(id, timestamp))
            ELSE /\ Finish(p, [evt({"exec"}, "reject")
                                  EXCEPT !.reason = "ffmpeg failed"])
                 /\ tick' = c.tick
                 /\ cacheMap' = c.cacheMap
                 /\ disk' = IF exec = "partial"
                            THEN written(disk, saveFile, Truncated(Frame(id, timestamp)))
                            ELSE disk

\* the backend's #getThumbnailCore
Core(p, c, id, ms, timestamp, io, exec) ==
    IF Instance = "bif" THEN BifCore(p, c, id, ms, timestamp, io)
    ELSE FfmpegCore(p, c, id, ms, io, exec)

\* getThumbnail(metadataId, timestamp) up to its first await; the index-backed
\* source turns the timestamp into whole seconds first
GetStart(p, id, ms, exec) ==
    /\ Instance # "null"
    /\ calls[p].pc = "idle"
    /\ budget > 0
    /\ budget' = budget - 1
    /\ LET timestamp == IF Instance = "bif" THEN ms \div 1000 ELSE ms
       IN IF hasItem(Cache(tick, cacheMap), id)
          THEN Core(p, Cache(tick, cacheMap), id, ms, timestamp, {}, exec)
          ELSE /\ calls' = [calls EXCEPT ![p] = [IdleCall EXCEPT
                               !.pc = "getDb", !.op = "get", !.id = id, !.ms = ms,
                               !.ts = timestamp]]
               /\ lastEvt' = Evt(p, "get", id, ms, timestamp, {"db"}, "none")
               /\ UNCHANGED <<tick, cacheMap, disk>>
    /\ UNCHANGED <<Instance, usePrecise, chosen, present, mtime, mediaDuration, bifFile, lastHas>>
    /\ UNCHANGED obsVars

\* getThumbnail after the rows have arrived: the rest of hasThumbnails, then
\* #getThumbnailCore in the same turn of the event loop
GetResume(p, exec) ==
    /\ calls[p].pc = "getDb"
    /\ LET id == calls[p].id
           c2 == probe(Cache(tick, cacheMap), id)
       IN /\ Core(p, c2, id, calls[p].ms, calls[p].ts, {"stat"}, exec)
          /\ lastHas' = [lastHas EXCEPT ![id] = BoolStr(c2.cacheMap[id].hasThumbs)]
    /\ UNCHANGED <<Instance, usePrecise, chosen, budget, present, mtime, mediaDuration, bifFile>>
    /\ UNCHANGED obsVars

\* variant: a failed read marks the item as having no thumbnails
readFailed_marksMissing(c, id) ==
    IF hasItem(c, id) THEN [c EXCEPT !.cacheMap[id].hasThumbs = FALSE] ELSE c

\* the cache after readFile has reported an error: reject and return
readFailed(c, id) == c

\* variant: the callback works on the timestamp of the latest request
callbackTimestamp_latest(p) == lastEvt.ts

\* the timestamp that the readFile callback of p's call works on: the
\* parameter of #readThumbnail, captured by the closure
callbackTimestamp(p) == calls[p].ts

\* the readFile callback of #readThumbnail
ReadDone(p) ==
    /\ calls[p].pc = "read"
    /\ LET id == calls[p].id
           c == Cache(tick, cacheMap)
           attached == hasItem(c, id) /\ cacheMap[id].ref = calls[p].ref
           r == parseFrame(bifFile[calls[p].path],
                           IF attached THEN cacheMap[id].interval ELSE 0,
                           callbackTimestamp(p))
           c1 == IF attached /\ r.kind # "reject"
                 THEN [c EXCEPT !.cacheMap[id].interval = r.interval] ELSE c
           c2 == IF r.kind = "resolve" THEN add(c1, id, r.index, r.buf) ELSE c1
           evt == Evt(p, "get", id, calls[p].ms, calls[p].ts, {"read"}, "none")
       IN IF calls[p].path \notin present
          THEN /\ Finish(p, [evt EXCEPT !.settled = "reject",
                                        !.reason = "Failed to read thumbnail file"])
               /\ tick' = readFailed(c, id).tick
               /\ cacheMap' = readFailed(c, id).cacheMap
          ELSE /\ Finish(p, [evt EXCEPT !.settled = r.kind, !.buf = r.buf,
                                        !.reason = r.reason])
               /\ tick' = c2.tick
               /\ cacheMap' = c2.cacheMap
    /\ UNCHANGED <<Instance, usePrecise, chosen, budget, present, mtime, mediaDuration, bifFile, disk, lastHas>>
    /\ UNCHANGED obsVars

\* a backing file is written or removed by the media server or the user
FileAppears(q) ==
    /\ q \notin present
    /\ present' = present \cup {q}
    /\ lastEvt' = Evt(0, "env", q[1], 0, 0, {}, "none")
    /\ lastHas' = [lastHas EXCEPT ![q[1]] = "none"]
    /\ UNCHANGED <<Instance, usePrecise, chosen, calls, budget, mtime, mediaDuration, bifFile, disk>>
    /\ UNCHANGED <<cacheVars, obsVars>>

FileVanishes(q) ==
    /\ q \in present
    /\ present' = present \ {q}
    /\ lastEvt' = Evt(0, "env", q[1], 0, 0, {}, "none")
    /\ lastHas' = [lastHas EXCEPT ![q[1]] = "none"]
    /\ UNCHANGED <<Instance, usePrecise, chosen, calls, budget, mtime, mediaDuration, bifFile, disk>>
    /\ UNCHANGED <<cacheVars, obsVars>>

\* the configuration is edited: the flag that the next Create will read
ConfigChange ==
    /\ usePrecise' = ~usePrecise
    /\ lastEvt' = Evt(0, "config", 0, 0, 0, {}, "none")
    /\ UNCHANGED <<Instance, chosen, calls, budget, present, mtime, mediaDuration, bifFile, disk, lastHas>>
    /\ UNCHANGED <<cacheVars, obsVars>>

\* requested timestamps in ms: whole seconds from before 0 to beyond the
\* last frame, and two timestamps inside a second
Timestamps == {1000 * t : t \in (0 - 1)..MaxSeconds} \cup {0 - 500, 3500}

\* the observation of the cache is not used by the manager
MgrObs ==
    /\ purge = NoPurge
    /\ lastOp = NoOp
    /\ watch = <<1, 0>>
    /\ since = 0
    /\ rankAtTouch = 0

\* Existence checks of both backends: no manager yet, any configuration, any
\* set of backing files, which come and go; all index files are alike.
ProbeInit ==
    /\ tick = 0
    /\ cacheMap = <<>>
    /\ MgrObs
    /\ Instance = "null"
    /\ usePrecise \in BOOLEAN
    /\ chosen = "null"
    /\ calls = [p \in Procs |-> IdleCall]
    /\ budget = MaxCalls
    /\ present \in SUBSET Paths
    /\ mtime = [q \in Paths |-> 1]
    /\ mediaDuration = [q \in Paths |-> DurationOf(q)]
    /\ bifFile = [q \in Paths |-> ScenarioBif]
    /\ disk = <<>>
    /\ lastEvt = NoEvt
    /\ lastHas = [id \in Items |-> "none"]

ProbeNext ==
    \/ Create
    \/ \E full \in BOOLEAN, rmFails \in BOOLEAN : Close(full, rmFails)
    \/ \E p \in Procs, id \in Items : HasStart(p, id)
    \/ \E p \in Procs : HasResume(p)
    \/ \E p \in Procs, id \in Items, exec \in ExecOutcomes : GetStart(p, id, 3500, exec)
    \/ \E p \in Procs, exec \in ExecOutcomes : GetResume(p, exec)
    \/ \E p \in Procs : ReadDone(p)
    \/ \E q \in Paths : FileAppears(q)
    \/ \E q \in Paths : FileVanishes(q)

SpecProbe == ProbeInit /\ [][ProbeNext]_vars

\* The life of the singleton: managers are created and closed while the
\* configuration changes, and the callers use item 1, whose files are on disk.
LifeInit ==
    /\ ProbeInit
    /\ present = Paths

LifeNext ==
    \/ Create
    \/ \E full \in BOOLEAN, rmFails \in BOOLEAN : Close(full, rmFails)
    \/ ConfigChange
    \/ \E p \in Procs : HasStart(p, 1)
    \/ \E p \in Procs : HasResume(p)
    \/ \E p \in Procs : GetStart(p, 1, 3500, "ok")
    \/ \E p \in Procs : GetResume(p, "ok")
    \/ \E p \in Procs : ReadDone(p)

SpecLife == LifeInit /\ [][LifeNext]_vars

\* Frame lookup of the index-backed source: the manager has been created with
\* precise thumbnails off, the index files are on disk and stay there, and
\* the callers fetch thumbnails of item 1 from one of the files of the family.
BifInit ==
    /\ tick = 0
    /\ cacheMap = <<>>
    /\ MgrObs
    /\ Instance = "bif"
    /\ usePrecise = FALSE
    /\ chosen = "bif"
    /\ calls = [p \in Procs |-> IdleCall]
    /\ budget = MaxFetches
    /\ present = Paths
    /\ mtime = [q \in Paths |-> 1]
    /\ mediaDuration = [q \in Paths |-> DurationOf(q)]
    /\ \E f \in BifFiles : bifFile = [q \in Paths |-> f]
    /\ disk = <<>>
    /\ lastEvt = NoEvt
    /\ lastHas = [id \in Items |-> "none"]

BifNext ==
    \/ \E p \in Procs : HasStart(p, 1)
    \/ \E p \in Procs : HasResume(p)
    \/ \E p \in Procs, ms \in Timestamps : GetStart(p, 1, ms, "ok")
    \/ \E p \in Procs : GetResume(p, "ok")
    \/ \E p \in Procs : ReadDone(p)

SpecBif == BifInit /\ [][BifNext]_vars

\* The same fetches on a damaged index file.
BrokenInit ==
    /\ tick = 0
    /\ cacheMap = <<>>
    /\ MgrObs
    /\ Instance = "bif"
    /\ usePrecise = FALSE
    /\ chosen = "bif"
    /\ calls = [p \in Procs |-> IdleCall]
    /\ budget = MaxFetches
    /\ present = Paths
    /\ mtime = [q \in Paths |-> 1]
    /\ mediaDuration = [q \in Paths |-> DurationOf(q)]
    /\ \E f \in BrokenBifs : bifFile = [q \in Paths |-> f]
    /\ disk = <<>>
    /\ lastEvt = NoEvt
    /\ lastHas = [id \in Items |-> "none"]

SpecBroken == BrokenInit /\ [][BifNext]_vars

\* On-demand generation: the manager has been created with precise thumbnails
\* on, the media files are on disk and stay there, every part of an item has
\* the same duration (half a second, or whole minutes), and the callers fetch
\* thumbnails of item 1.
Durations == {500} \cup {60000 * m : m \in 1..MaxMinutes}

\* requested timestamps in ms: before 0, early in the stream and past the end
\* of a one-minute stream, each at four places of a 100 ms bucket
FfmpegTimestamps == {base + o : base \in {0 - 100, 1200, 60500}, o \in {0, 30, 50, 80}}

FfmpegInit ==
    /\ tick = 0
    /\ cacheMap = <<>>
    /\ MgrObs
    /\ Instance = "ffmpeg"
    /\ usePrecise = TRUE
    /\ chosen = "ffmpeg"
    /\ calls = [p \in Procs |-> IdleCall]
    /\ budget = MaxFetches
    /\ present = Paths
    /\ mtime = [q \in Paths |-> 1]
    /\ \E d \in Durations : mediaDuration = [q \in Paths |-> d]
    /\ bifFile = [q \in Paths |-> <<>>]
    /\ disk = <<>>
    /\ lastEvt = NoEvt
    /\ lastHas = [id \in Items |-> "none"]

FfmpegNext ==
    \/ \E p \in Procs : HasStart(p, 1)
    \/ \E p \in Procs : HasResume(p)
    \/ \E p \in Procs, ms \in FfmpegTimestamps, exec \in ExecOutcomes :
            GetStart(p, 1, ms, exec)
    \/ \E p \in Procs, exec \in ExecOutcomes : GetResume(p, exec)

SpecFfmpeg == FfmpegInit /\ [][FfmpegNext]_vars

\* The existence check: a manager of either kind has been created; the index
\* files carry modification times from the epoch onwards, the media parts
\* carry durations that the query returns in descending order, and files come
\* and go between the checks.
Mtimes == 0..MaxMtime

SortedDurations ==
    {d \in [Paths -> Durations] :
        \A q \in Paths, r \in Paths :
            (q[1] = r[1] /\ q[2] < r[2]) => d[q] >= d[r]}

ExistInit ==
    /\ tick = 0
    /\ cacheMap = <<>>
    /\ MgrObs
    /\ usePrecise \in BOOLEAN
    /\ Instance = kindOf(usePrecise)
    /\ chosen = Instance
    /\ calls = [p \in Procs |-> IdleCall]
    /\ budget = MaxCalls
    /\ present \in SUBSET Paths
    /\ \/ /\ usePrecise
          /\ mtime = [q \in Paths |-> 1]
          /\ mediaDuration \in SortedDurations
       \/ /\ ~usePrecise
          /\ mtime \in [Paths -> Mtimes]
          /\ mediaDuration = [q \in Paths |-> DurationOf(q)]
    /\ bifFile = [q \in Paths |-> ScenarioBif]
    /\ disk = <<>>
    /\ lastEvt = NoEvt
    /\ lastHas = [id \in Items |-> "none"]

ExistNext ==
    \/ \E p \in Procs, id \in Items : HasStart(p, id)
    \/ \E p \in Procs : HasResume(p)
    \/ \E q \in Paths : FileAppears(q)
    \/ \E q \in Paths : FileVanishes(q)

SpecExist == ExistInit /\ [][ExistNext]_vars

\* The cache folder over the life of on-demand managers: one caller fetches
\* two buckets of item 1 often enough for thumbnails to be evicted from
\* memory, and the manager is closed (for a restart or for good) and created
\* again in between; the subprocess succeeds or fails.
DiskTimestamps == {1200, 60500}

DiskInit ==
    /\ tick = 0
    /\ cacheMap = <<>>
    /\ MgrObs
    /\ Instance = "ffmpeg"
    /\ usePrecise = TRUE
    /\ chosen = "ffmpeg"
    /\ calls = [p \in Procs |-> IdleCall]
    /\ budget = MaxDiskCalls
    /\ present = Paths
    /\ mtime = [q \in Paths |-> 1]
    /\ mediaDuration = [q \in Paths |-> 60000]
    /\ bifFile = [q \in Paths |-> <<>>]
    /\ disk = <<>>
    /\ lastEvt = NoEvt
    /\ lastHas = [id \in Items |-> "none"]

DiskNext ==
    \/ Create
    \/ \E full \in BOOLEAN, rmFails \in BOOLEAN : Close(full, rmFails)
    \/ \E ms \in DiskTimestamps, exec \in ExecOutcomes : GetStart(1, 1, ms, exec)
    \/ \E exec \in ExecOutcomes : GetResume(1, exec)

SpecDisk == DiskInit /\ [][DiskNext]_vars

\* ------------------------------------------------------------------------
\* The cache on its own: clients record items, add and look up thumbnails
\* ------------------------------------------------------------------------
CacheInit ==
    /\ tick = 0
    /\ cacheMap = <<>>
    /\ lastOp = NoOp
    /\ watch \in SubEntries
    /\ since = 0
    /\ rankAtTouch = 0
    /\ NoManager

\* An item record is created once per item (hasThumbnails' miss path).
CacheAddItem(id) ==
    /\ ~hasItem(Cache(tick, cacheMap), id)
    /\ LET c2 == addItem(Cache(tick, cacheMap), id, MediaItemCache(TRUE))
       IN /\ tick' = c2.tick
          /\ cacheMap' = c2.cacheMap
          /\ Observe("addItem", id, 0, FALSE, c2)
          /\ UNCHANGED mgrVars

CacheAdd(id, key, buf) ==
    LET c == Cache(tick, cacheMap)
        c2 == add(c, id, key, buf)
    IN /\ tick' = c2.tick
       /\ cacheMap' = c2.cacheMap
       /\ Observe("add", id, key, hasItem(c, id), c2)
       /\ UNCHANGED mgrVars

CacheTryGet(id, key) ==
    LET c == Cache(tick, cacheMap)
        c2 == tryGetCache(c, id, key)
    IN /\ tick' = c2.tick
       /\ cacheMap' = c2.cacheMap
       /\ Observe("tryGet", id, key, hasThumb(c, id, key), c2)
       /\ UNCHANGED mgrVars

CacheNext ==
    \/ \E id \in Items : since < MaxSince /\ CacheAddItem(id)
    \/ \E e \in SubEntries, buf \in Buffers :
            since < MaxSince /\ CacheAdd(e[1], e[2], buf)
    \/ \E e \in SubEntries : since < MaxSince /\ CacheTryGet(e[1], e[2])

SpecCache == CacheInit /\ [][CacheNext]_vars

\* The same cache followed for a long run: one frame per item, so that every
\* operation that does not touch X touches the one other sub-entry.
EvictInit ==
    /\ CacheInit
    /\ watch[2] = 0

EvictNext ==
    \/ \E id \in Items : since < EvictSince /\ CacheAddItem(id)
    \/ \E id \in Items, buf \in Buffers : since < EvictSince /\ CacheAdd(id, 0, buf)
    \/ \E id \in Items : since < EvictSince /\ CacheTryGet(id, 0)

SpecEvict == EvictInit /\ [][EvictNext]_vars

\* The cache filled by a client that keeps adding new thumbnails of item 1,
\* as the managers do for a viewer who moves through an episode: the n-th
\* successful operation adds key n, or, when it is the one that sweeps, looks
\* up the key before it. X belongs to an item that is never recorded, so that
\* since counts the operations.
FillInit ==
    /\ CacheInit
    /\ watch = <<MaxItems, 0>>

FillNext ==
    \/ since < MaxFill /\ CacheAddItem(1)
    \/ since < MaxFill /\ CacheAdd(1, since, <<1>>)
    \/ since < MaxFill /\ tick = maxTick - 1 /\ CacheTryGet(1, since - 1)

SpecFill == FillInit /\ [][FillNext]_vars

\* ------------------------------------------------------------------------
\* Properties of the aging cache
\* ------------------------------------------------------------------------
\* what one sweep makes of a rank: the new rank, or 0 for "deleted"
Decayed(rank) == IF rank - 20 <= 0 THEN 0 ELSE rank - 20

RankOrZero(m, e) ==
    IF e \in entriesOf(m) THEN m[e[1]].cachedThumbnails[e[2]].rank ELSE 0

\* C1: every successful add / tryGet increments the tick counter; the
\* operation that brings it to 20 resets it to 0 and sweeps every cached
\* thumbnail of every item (rank - 20, deleted when <= 0); no other
\* operation sweeps or deletes anything.
C1_Step ==
    LET op == lastOp'
        sweeping == op.ok /\ tick + 1 = 20
        touched(e) == op.ok /\ e = <<op.id, op.key>>
    IN /\ op.ok => tick' = (IF tick + 1 = 20 THEN 0 ELSE tick + 1)
       /\ \A e \in entriesOf(cacheMap) :
            IF sweeping
            THEN /\ ~touched(e) =>
                      RankOrZero(cacheMap', e) = Decayed(RankOrZero(cacheMap, e))
                 /\ (touched(e) /\ op.kind = "tryGet") =>
                      RankOrZero(cacheMap', e) = Decayed(maxCache + 1)
            ELSE /\ e \in entriesOf(cacheMap')
                 /\ ~touched(e) => RankOrZero(cacheMap', e) = RankOrZero(cacheMap, e)
       /\ ~sweeping => op.deleted = 0
C1_TickAndSweep == [][C1_Step]_vars

\* a sweep has just run and has deleted a thumbnail
C1_Witness == lastOp.ok /\ tick = 0 /\ lastOp.deleted > 0

\* C2: after every add and every successful tryGet the touched sub-entry has
\* rank maxCache + 1, also when the operation itself triggers the sweep.
C2_TouchedRankIsMax ==
    lastOp.ok => RankOrZero(cacheMap, <<lastOp.id, lastOp.key>>) = maxCache + 1

\* C3: 20 successful operations that do not touch X after X's last access
\* leave X with a rank exactly 20 below the one it had after that access.
C3_OneDecayUnit ==
    (rankAtTouch > 0 /\ since = 20) =>
        /\ watch \in entriesOf(cacheMap)
        /\ RankOrZero(cacheMap, watch) = rankAtTouch - 20

C3_Witness ==
    rankAtTouch > 0 /\ since = 20 /\ lastOp.ok /\ tick # 0

\* C4: a thumbnail X that is not accessed again is absent after 20 * 201
\* successful operations on other sub-entries, and a thumbnail that is absent
\* becomes present only by an add of that sub-entry.
C4_Evicted ==
    (rankAtTouch > 0 /\ since >= 20 * 201) => watch \notin entriesOf(cacheMap)

C4_StaysAbsent ==
    \A e \in SubEntries :
        (e \notin entriesOf(cacheMap) /\ e \in entriesOf(cacheMap')) =>
            (lastOp'.kind = "add" /\ lastOp'.ok /\ e = <<lastOp'.id, lastOp'.key>>)

C4_EvictedUntilPut == []C4_Evicted /\ [][C4_StaysAbsent]_vars

C4_Witness ==
    rankAtTouch > 0 /\ since = 20 * 201 /\ watch \notin entriesOf(cacheMap)

\* ------------------------------------------------------------------------
\* Properties of the existence check
\* ------------------------------------------------------------------------
\* the step starts a call (a caller leaves "idle")
Starts(op, id) == budget' = budget - 1 /\ lastEvt'.op = op /\ lastEvt'.id = id

\* C5: hasThumbnails(id) called again after an earlier call for id has
\* resolved, with the backing files of id unchanged since, returns the same
\* boolean at once, without a database query or a file check.
C5_Step ==
    \A id \in Items :
        (Starts("has", id) /\ lastHas[id] # "none") =>
            /\ lastEvt'.settled = "resolve"
            /\ BoolStr(lastEvt'.bool) = lastHas[id]
            /\ lastEvt'.io = {}
C5_SecondCallCached == [][C5_Step]_vars

\* a repeated check of an item without files has just been answered from the
\* record by the on-demand source
C5_Witness ==
    /\ Instance = "ffmpeg"
    /\ lastEvt.op = "has" /\ lastEvt.settled = "resolve" /\ lastEvt.io = {}
    /\ ~lastEvt.bool

\* C6: once hasThumbs = false is recorded for an item, it stays recorded until
\* the manager is closed or created anew; every later getThumbnail for the
\* item rejects with "No thumbnails" and every later hasThumbnails returns
\* false, both without any query, file access or subprocess.
Negative(m, id) == id \in DOMAIN m /\ ~m[id].hasThumbs
C6_Step ==
    \A id \in Items :
        (Negative(cacheMap, id) /\ lastEvt'.op \notin {"create", "close"}) =>
            /\ Negative(cacheMap', id)
            /\ Starts("get", id) =>
                  /\ lastEvt'.settled = "reject"
                  /\ lastEvt'.reason = "No thumbnails"
                  /\ lastEvt'.io = {}
            /\ Starts("has", id) =>
                  /\ lastEvt'.settled = "resolve"
                  /\ ~lastEvt'.bool
                  /\ lastEvt'.io = {}
C6_NegativeIsFinal == [][C6_Step]_vars

\* ------------------------------------------------------------------------
\* Properties of the index-backed frame lookup
\* ------------------------------------------------------------------------
\* the index file of the run, read as the format describes it
TheBif == bifFile[<<1, 1>>]
Plain(word) == word.hi * 65536 + word.lo
FrameCount == Plain(TheBif.count)
OffsetOfFrame(i) == Plain(TheBif.recs[i + 1].off)
SecondsOfFrame(i) == Plain(TheBif.recs[i + 1].ts)
\* the bytes of frame i: up to the next frame, or to the end of the file
FrameRange(i) ==
    <<OffsetOfFrame(i), IF i = FrameCount - 1 THEN TheBif.length ELSE OffsetOfFrame(i + 1)>>
\* timestamp of the second record; the closing record of a one-frame file
\* reads as -1
IntervalOfBif == IF TheBif.recs[2].ts = AllOnes THEN 0 - 1 ELSE Plain(TheBif.recs[2].ts)
Floor(a, b) == IF b > 0 THEN a \div b ELSE (0 - a) \div (0 - b)

\* a getThumbnail call has just been settled
Fetched == lastEvt.op = "get" /\ lastEvt.settled # "none"
FetchedValid == Fetched /\ TheBif \in ValidBifs

\* C7: for a valid index file, a fetch whose frame index
\* floor(floor(ms / 1000) / interval) is one of the frames resolves with the
\* bytes from that frame's offset to the next frame's offset (to the end of
\* the file for the last frame).
C7_FrameLookup ==
    LET index == Floor(lastEvt.ms \div 1000, IntervalOfBif)
    IN (FetchedValid /\ index >= 0 /\ index <= FrameCount - 1) =>
          /\ lastEvt.settled = "resolve"
          /\ lastEvt.buf = FrameRange(index)

\* scenario A: 3500 ms in the file (0,0x40) (2,0x1000) (4,0x2000) of length 0x3000
C7_Witness ==
    /\ Fetched /\ TheBif = ScenarioBif /\ lastEvt.ms = 3500
    /\ lastEvt.buf = <<4096, 8192>>

\* C8: a fetch beyond the last index entry resolves with the range of the
\* last frame, a fetch with a negative timestamp with the range of frame 0.
C8_Clamped ==
    /\ (FetchedValid /\ lastEvt.ms \div 1000 > SecondsOfFrame(FrameCount - 1)) =>
          (lastEvt.settled = "resolve" /\ lastEvt.buf = FrameRange(FrameCount - 1))
    /\ (FetchedValid /\ lastEvt.ms < 0) =>
          (lastEvt.settled = "resolve" /\ lastEvt.buf = FrameRange(0))

\* a fetch two frames past the end of a three-frame file has been served
C8_Witness ==
    /\ FetchedValid /\ FrameCount = 3 /\ lastEvt.settled = "resolve"
    /\ Floor(lastEvt.ms \div 1000, IntervalOfBif) > FrameCount

\* C9: with an index file whose first record is not at 0 seconds every fetch
\* that reads the file rejects with the corrupt-contents failure, no thumbnail
\* is ever cached and the interval of the item stays 0.
C9_CorruptRejected ==
    (TheBif \in CorruptBifs) =>
        /\ Fetched =>
              /\ lastEvt.settled = "reject"
              /\ lastEvt.reason = "Unexpected thumbnail file contents"
        /\ \A id \in DOMAIN cacheMap :
              /\ cacheMap[id].interval = 0
              /\ DOMAIN cacheMap[id].cachedThumbnails = {}

\* the last of the fetches the callers may start has failed like the others
C9_Witness ==
    /\ TheBif \in CorruptBifs /\ Fetched /\ budget = 0 /\ allIdle
    /\ lastEvt.reason = "Unexpected thumbnail file contents"

\* C10: for a valid index file and every whole second t in
\* [0, durationSeconds] the fetch resolves with a non-empty byte range.
DurationSeconds ==
    SecondsOfFrame(FrameCount - 1) + (IF FrameCount > 1 THEN SecondsOfFrame(1) ELSE 0)
C10_NonEmpty ==
    (/\ FetchedValid
     /\ lastEvt.ms >= 0 /\ lastEvt.ms % 1000 = 0
     /\ lastEvt.ms \div 1000 <= DurationSeconds) =>
        /\ lastEvt.settled = "resolve"
        /\ lastEvt.buf[2] > lastEvt.buf[1]

\* the last frame has been fetched at the very end of the file's duration
C10_Witness ==
    /\ FetchedValid /\ FrameCount > 1 /\ lastEvt.settled = "resolve"
    /\ lastEvt.ms = 1000 * DurationSeconds

\* ------------------------------------------------------------------------
\* Properties of the on-demand generation
\* ------------------------------------------------------------------------
\* a getThumbnail call of the on-demand source has just gone past the
\* "No thumbnails" guard and has been settled
Generated ==
    /\ Instance = "ffmpeg" /\ lastEvt.op = "get" /\ lastEvt.settled # "none"
    /\ lastEvt.reason # "No thumbnails"
Served == Generated /\ lastEvt.settled = "resolve"

\* the thumbnails cached for an item, and the duration recorded for it
ThumbsOf(m, id) == IF id \in DOMAIN m THEN m[id].cachedThumbnails ELSE <<>>
RecordedDuration(id) == cacheMap[id].duration

\* the start of the 100 ms bucket that holds t
BucketStart(t) == CHOOSE f \in (t - 99)..t : f % 100 = 0

\* C11: the timestamp that the on-demand fetch uses as cache key, as file
\* name and as seek offset is min(d - 1000, floor(t / 100) * 100) for the
\* requested t and the recorded duration d, hence never above d - 1000.
C11_BucketKey ==
    Generated =>
        LET d == RecordedDuration(lastEvt.id)
            key == lastEvt.ts
        IN /\ key = (IF d - 1000 < BucketStart(lastEvt.ms) THEN d - 1000
                                                           ELSE BucketStart(lastEvt.ms))
           /\ key <= d - 1000
           /\ lastEvt.settled = "resolve" =>
                 /\ key \in DOMAIN ThumbsOf(cacheMap, lastEvt.id)
                 /\ <<lastEvt.id, key>> \in DOMAIN disk
           /\ (lastEvt.settled = "resolve" /\ "exec" \in lastEvt.io) =>
                 lastEvt.buf = <<lastEvt.id, key>>

\* scenario B: duration 60000 ms, request 60500 ms, generated at 59000 ms
C11_Witness ==
    /\ Served /\ "exec" \in lastEvt.io
    /\ RecordedDuration(lastEvt.id) = 60000 /\ lastEvt.ms = 60500 /\ lastEvt.ts = 59000

\* C12: a fetch for T + 50 that follows a successful fetch for T of the same
\* item, with T and T + 50 in one 100 ms bucket, uses the same rounded
\* timestamp, returns the same bytes and does not run the subprocess.
C12_Step ==
    (/\ Served
     /\ Starts("get", lastEvt.id)
     /\ lastEvt'.ms = lastEvt.ms + 50
     /\ BucketStart(lastEvt'.ms) = BucketStart(lastEvt.ms)) =>
        /\ lastEvt'.settled = "resolve"
        /\ lastEvt'.ts = lastEvt.ts
        /\ lastEvt'.buf = lastEvt.buf
        /\ "exec" \notin lastEvt'.io
C12_SameBucketOnce == [][C12_Step]_vars

\* 1280 ms has been served from memory, at 1200 ms, after bucket 1200 had
\* been generated by the one fetch before it
C12_Witness ==
    /\ Served /\ lastEvt.ms = 1280 /\ lastEvt.ts = 1200 /\ lastEvt.io = {}
    /\ budget = MaxFetches - 2 /\ allIdle
    /\ DOMAIN disk = {<<1, 1200>>}

\* C13: when the subprocess fails, getThumbnail rejects, the bucket is not
\* added to the in-memory cache and no file of the bucket is left in the
\* cache folder; no fetch is ever served anything but a whole frame.
C13_NoPartialFile ==
    /\ (Generated /\ lastEvt.settled = "reject") =>
          /\ "exec" \in lastEvt.io
          /\ lastEvt.ts \notin DOMAIN ThumbsOf(cacheMap, lastEvt.id)
          /\ <<lastEvt.id, lastEvt.ts>> \notin DOMAIN disk
    /\ Served => lastEvt.buf = <<lastEvt.id, lastEvt.ts>>

\* C14: a fetch that finds the bucket neither in memory nor in the cache
\* folder and whose subprocess succeeds has run the subprocess, and returns
\* the bytes that are afterwards both in the bucket's file and in memory.
C14_Step ==
    LET id == lastEvt'.id
        key == lastEvt'.ts
    IN (/\ Instance = "ffmpeg"
        /\ lastEvt'.op = "get" /\ lastEvt'.settled = "resolve"
        /\ key \notin DOMAIN ThumbsOf(cacheMap, id)
        /\ <<id, key>> \notin DOMAIN disk) =>
           /\ "exec" \in lastEvt'.io
           /\ <<id, key>> \in DOMAIN disk'
           /\ lastEvt'.buf = disk'[<<id, key>>]
           /\ key \in DOMAIN ThumbsOf(cacheMap', id)
           /\ ThumbsOf(cacheMap', id)[key].data = lastEvt'.buf
C14_StoredTwice == [][C14_Step]_vars

\* a frame has just been generated for a call that had to query the database
C14_Witness ==
    /\ Served /\ lastEvt.io = {"stat", "exec"}
    /\ disk[<<lastEvt.id, lastEvt.ts>>] = lastEvt.buf

\* ------------------------------------------------------------------------
\* Properties of the singleton and of its item records
\* ------------------------------------------------------------------------
\* C15: closing the on-demand source with fullShutdown = true removes the
\* whole cache folder (after a successful delete no generated file remains),
\* a failed delete does not make close throw, and closing with
\* fullShutdown = false deletes nothing.
C15_Step ==
    (lastEvt'.op = "close") =>
        /\ lastEvt'.settled = "return"
        /\ (Instance = "ffmpeg" /\ "full" \in lastEvt'.io /\ "rmfail" \notin lastEvt'.io) =>
              disk' = <<>>
        /\ ("full" \notin lastEvt'.io) => disk' = disk
C15_CloseCleansUp == [][C15_Step]_vars

\* a full shutdown has just deleted generated frames
C15_Witness ==
    /\ lastEvt.op = "close" /\ lastEvt.io = {"full", "rm"}
    /\ Instance = "null" /\ disk = <<>>

\* C16: a second Create without a Close in between leaves the active
\* instance in place: its kind, its item records and its thumbnails.
C16_Step ==
    (lastEvt'.op = "create" /\ Instance # "null") =>
        /\ Instance' = Instance
        /\ cacheMap' = cacheMap
        /\ tick' = tick
C16_CreateIdempotent == [][C16_Step]_vars

\* C17: after the first Create no manager of the other kind ever becomes the
\* active one, whatever is created, closed, fetched or configured.
C17_KindChosenOnce ==
    (chosen # "null" /\ Instance # "null") => Instance = chosen

\* C18: until the manager is closed or created anew, the record of an item
\* is neither removed nor replaced, its discovered interval stays, and a
\* cached thumbnail of it disappears only in a sweep.
C18_Step ==
    \A id \in DOMAIN cacheMap :
        (lastEvt'.op \notin {"create", "close"}) =>
            /\ id \in DOMAIN cacheMap'
            /\ cacheMap'[id].hasThumbs = cacheMap[id].hasThumbs
            /\ cacheMap'[id].path = cacheMap[id].path
            /\ cacheMap'[id].ref = cacheMap[id].ref
            /\ (cacheMap[id].interval # 0) => cacheMap'[id].interval = cacheMap[id].interval
            /\ \A k \in DOMAIN cacheMap[id].cachedThumbnails :
                  \/ k \in DOMAIN cacheMap'[id].cachedThumbnails
                  \/ (tick + 1 = maxTick /\ tick' = 0)
C18_RecordKept == [][C18_Step]_vars

\* ------------------------------------------------------------------------
\* Overlapping fetches of one bucket
\* ------------------------------------------------------------------------
\* the call that has just been settled was waiting for its rows while another
\* caller generated the very bucket it asks for
Overlapped == Generated /\ lastEvt.ts \in lastEvt.seen

TotalThumbs(m) == Cardinality(entriesOf(m))

\* C20: a CacheMap never holds more than maxCache thumbnails, over all of
\* its media items.
C20_AtMostMaxCache == TotalThumbs(cacheMap) <= maxCache

\* ------------------------------------------------------------------------
\* Reuse of thumbnails of the index-backed source
\* ------------------------------------------------------------------------
\* C21: a getThumbnail(item, t) that directly follows a resolved
\* getThumbnail(item, t) of the index-backed source resolves at once with
\* the same bytes, from memory and without reading the index file, for every
\* t, also before 0 and beyond the last frame.
C21_Step ==
    (/\ Instance = "bif"
     /\ lastEvt.op = "get" /\ lastEvt.settled = "resolve"
     /\ Starts("get", lastEvt.id)
     /\ lastEvt'.ms = lastEvt.ms) =>
        /\ lastEvt'.settled = "resolve"
        /\ lastEvt'.buf = lastEvt.buf
        /\ lastEvt'.io = {}
        /\ \A p \in Procs : calls[p].pc # "read" => calls'[p].pc # "read"
C21_ReusedNotReread == [][C21_Step]_vars

\* ------------------------------------------------------------------------
\* Failed operations, retention and size of the aging cache
\* ------------------------------------------------------------------------
\* C28: an add for an item without record, a tryGet for an item without
\* record and a tryGet for a sub-key that is not cached leave every
\* thumbnail, every rank and the tick counter as they were.
C28_Step ==
    (lastOp'.kind \in {"add", "tryGet"} /\ ~lastOp'.ok) =>
        /\ cacheMap' = cacheMap
        /\ tick' = tick
        /\ lastOp'.deleted = 0
C28_FailedOpsChangeNothing == [][C28_Step]_vars

\* a lookup has just missed right before a sweep was due, with thumbnails
\* in the cache
C28_Witness ==
    /\ lastOp.kind = "tryGet" /\ ~lastOp.ok
    /\ tick = maxTick - 1 /\ entriesOf(cacheMap) # {}

\* C29: a thumbnail X that has just been added or returned by tryGet is
\* still cached after fewer than 200 successful operations on other
\* sub-entries, whatever the tick counter was.
C29_RecentlyUsedStay ==
    (rankAtTouch > 0 /\ since < maxCache) =>
        /\ watch \in entriesOf(cacheMap)
        /\ tryGetResult(Cache(tick, cacheMap), watch[1], watch[2]) # <<>>

\* X was returned by a tryGet that swept it to 181, and 199 operations later
\* it is down to its last rank
C29_Witness ==
    /\ rankAtTouch = maxCache + 1 - maxTick /\ since = maxCache - 1
    /\ RankOrZero(cacheMap, watch) = 1

\* C30: one CacheMap never holds more than
\* tickThreshold * ceil((maxCache + 1) / tickThreshold) = 220 thumbnails.
C30_AtMost220 ==
    TotalThumbs(cacheMap) <= maxTick * ((maxCache + 1 + maxTick - 1) \div maxTick)

\* the cache is as full as it gets
C30_Witness == TotalThumbs(cacheMap) = 220

\* ------------------------------------------------------------------------
\* Existence checks

\* the candidate files of an item that are on disk
PresentOf(id) == {q \in present : q[1] = id}

\* a hasThumbnails call has just examined the files of its item
Examined(kind) ==
    Instance = kind /\ lastEvt.op = "has" /\ lastEvt.io = {"stat"}

\* C23: on the index-backed backend hasThumbnails(id) returns true exactly
\* when a candidate index file of the item is on disk, and the recorded path
\* is a present candidate with the greatest modification time.
C23_NewestPresentBif ==
    Examined("bif") =>
        LET id == lastEvt.id
            rec == cacheMap[id]
        IN /\ lastEvt.bool = (PresentOf(id) # {})
           /\ rec.hasThumbs = lastEvt.bool
           /\ lastEvt.bool =>
                 /\ rec.path \in PresentOf(id)
                 /\ \A q \in PresentOf(id) : mtime[q] <= mtime[rec.path]

\* C24: on the on-demand backend hasThumbnails(id) returns true exactly when
\* a file row of the item is on disk; the recorded path and duration are
\* those of the first existing row in query order, which has the greatest
\* duration of the existing rows; with no row on disk it records
\* hasThumbs = false and returns false.
C24_FirstExistingRow ==
    Examined("ffmpeg") =>
        LET id == lastEvt.id
            rec == cacheMap[id]
        IN /\ lastEvt.bool = (PresentOf(id) # {})
           /\ rec.hasThumbs = lastEvt.bool
           /\ lastEvt.bool =>
                 /\ rec.path \in PresentOf(id)
                 /\ \A q \in PresentOf(id) : rec.path[2] <= q[2]
                 /\ rec.duration = mediaDuration[rec.path]
                 /\ \A q \in PresentOf(id) : mediaDuration[q] <= rec.duration

\* the longest row is missing from disk and the next row has been recorded
C24_Witness ==
    /\ Examined("ffmpeg")
    /\ lastEvt.bool
    /\ <<lastEvt.id, 1>> \notin present
    /\ cacheMap[lastEvt.id].path = <<lastEvt.id, 2>>
    /\ cacheMap[lastEvt.id].duration = mediaDuration[<<lastEvt.id, 2>>]
    /\ mediaDuration[<<lastEvt.id, 1>>] > mediaDuration[<<lastEvt.id, 2>>]

\* ------------------------------------------------------------------------
\* Overlapping index-backed fetches

\* the frame of the file that a timestamp in ms selects
SelectedFrame(ms) ==
    LET index == Floor(ms \div 1000, IntervalOfBif)
    IN IF index > FrameCount - 1 THEN FrameCount - 1
       ELSE IF index < 0 THEN 0 ELSE index

\* C25: however overlapping index-backed fetches of one item interleave, with
\* the index file unchanged, each call resolves with the bytes of the frame
\* selected for its own timestamp, and every thumbnail cached under frame
\* index i holds the bytes of frame i.
C25_OwnFrame ==
    (Instance = "bif" /\ TheBif \in ValidBifs) =>
        /\ Fetched =>
              /\ lastEvt.settled = "resolve"
              /\ lastEvt.buf = FrameRange(SelectedFrame(lastEvt.ms))
        /\ \A e \in entriesOf(cacheMap) :
              /\ e[2] \in 0..(FrameCount - 1)
              /\ cacheMap[e[1]].cachedThumbnails[e[2]].data = FrameRange(e[2])

\* a call has read its frame while an overlapping call for another frame of
\* the item is still reading the file, and its frame is in the cache
C25_Witness ==
    /\ Instance = "bif" /\ TheBif \in ValidBifs
    /\ Fetched /\ lastEvt.io = {"read"} /\ lastEvt.settled = "resolve"
    /\ \E p \in Procs :
          /\ calls[p].pc = "read" /\ calls[p].id = lastEvt.id
          /\ SelectedFrame(calls[p].ms) # SelectedFrame(lastEvt.ms)
    /\ <<lastEvt.id, SelectedFrame(lastEvt.ms)>> \in entriesOf(cacheMap)

\* ------------------------------------------------------------------------
\* Read failures

\* the step is the readFile callback of p's call reporting an error
ReadFails(p) ==
    /\ calls[p].pc = "read"
    /\ lastEvt'.p = p
    /\ lastEvt'.reason = "Failed to read thumbnail file"

\* C27: when reading the index file fails, getThumbnail rejects, the cache
\* (thumbnails, ranks, tick counter) and the recorded existence and interval
\* of the item are unchanged, and the call is over after its one read; a
\* later fetch of the item that misses the cache reads the file again.
C27_Step ==
    /\ \A p \in Procs :
          ReadFails(p) =>
              /\ lastEvt'.settled = "reject"
              /\ lastEvt'.io = {"read"}
              /\ cacheMap' = cacheMap
              /\ tick' = tick
              /\ calls'[p].pc = "idle"
    /\ (/\ lastEvt.reason = "Failed to read thumbnail file"
        /\ Starts("get", lastEvt.id)
        /\ ~noThumbnails(Cache(tick, cacheMap), lastEvt.id)
        /\ ThumbsOf(cacheMap, lastEvt.id) = <<>>) =>
              /\ calls'[lastEvt'.p].pc = "read"
              /\ lastEvt'.settled = "none"
C27_ReadFailureLeavesCache == [][C27_Step]_vars

\* a read has failed while the cache holds a thumbnail of the item and the
\* record of the item still says that thumbnails exist
C27_Witness ==
    /\ lastEvt.reason = "Failed to read thumbnail file"
    /\ lastEvt.settled = "reject"
    /\ ~noThumbnails(Cache(tick, cacheMap), lastEvt.id)
    /\ ThumbsOf(cacheMap, lastEvt.id) # <<>>

\* ------------------------------------------------------------------------
\* Damaged index files

\* C26: every index-backed getThumbnail call settles, with a buffer or with
\* an error, once the database query and the file read have completed,
\* whatever the file holds: here, when the readFile callback of a call has
\* run, the call has been resolved or rejected.
C26_ReadSettles ==
    (Instance = "bif" /\ lastEvt.op = "get" /\ lastEvt.io = {"read"}) =>
        lastEvt.settled \in {"resolve", "reject"}

\* ------------------------------------------------------------------------
\* Lifetime of the generated frame files

\* the step settles an on-demand fetch that got as far as its bucket
FetchesBucket ==
    /\ Instance = "ffmpeg"
    /\ lastEvt'.op = "get" /\ lastEvt'.settled # "none"
    /\ lastEvt'.reason # "No thumbnails"

\* C22: a generated frame file stays, with its bytes, until the purge of a
\* full shutdown; while the file of (item, bucket) exists, a fetch of that
\* bucket does not invoke the subprocess, returns the bytes of the file and
\* leaves them in the in-memory cache, also after the thumbnail has been
\* evicted from memory and after a Close(false) and a new Create.
C22_Step ==
    /\ \A f \in DOMAIN disk :
          \/ f \in DOMAIN disk' /\ disk'[f] = disk[f]
          \/ lastEvt'.op = "close" /\ {"full", "rm"} \subseteq lastEvt'.io
    /\ (FetchesBucket /\ <<lastEvt'.id, lastEvt'.ts>> \in DOMAIN disk) =>
          LET id == lastEvt'.id
              bucket == lastEvt'.ts
          IN /\ "exec" \notin lastEvt'.io
             /\ lastEvt'.settled = "resolve"
             /\ lastEvt'.buf = disk[<<id, bucket>>]
             /\ <<id, bucket>> \in entriesOf(cacheMap')
             /\ cacheMap'[id].cachedThumbnails[bucket].data = disk[<<id, bucket>>]
C22_FileLivesUntilPurge == [][C22_Step]_vars

\* a thumbnail that is no longer in memory has been served from its file by
\* a manager that knew the item already, after more fetches than a thumbnail
\* stays in memory unused
C22_Witness ==
    /\ lastEvt.op = "get" /\ lastEvt.settled = "resolve"
    /\ lastEvt.io = {"cachefile"}
    /\ lastEvt.buf = Frame(lastEvt.id, lastEvt.ts)
    /\ budget <= MaxDiskCalls - (maxCache + maxTick)

\* ------------------------------------------------------------------------
\* Ranges of the ranks and of the tick counter

\* the ranks of the thumbnails a cache map holds
RanksOf(m) == {m[e[1]].cachedThumbnails[e[2]].rank : e \in entriesOf(m)}

\* C31: between cache operations every thumbnail present has a rank in
\* 1..maxCache + 1: no rank <= 0 is observable and none exceeds maxCache + 1.
C31_RanksInRange == RanksOf(cacheMap) \subseteq 1..(maxCache + 1)

\* a thumbnail one sweep from deletion next to one that has just been added
C31_Witness == {1, maxCache + 1} \subseteq RanksOf(cacheMap)

\* C36: between cache operations the tick counter is in 0..maxTick - 1.
C36_TickBelowMax == tick \in 0..(maxTick - 1)

\* a successful operation has just swept the cache and reset the counter
C36_Witness ==
    lastOp.kind \in {"add", "tryGet"} /\ lastOp.ok /\ tick = 0 /\ lastOp.deleted > 0

\* ------------------------------------------------------------------------
\* Memory and cache folder of the on-demand source

\* every bucket held both in memory and in the cache folder has the same
\* bytes in both
MemoryMatchesDisk ==
    \A f \in DOMAIN disk \cap entriesOf(cacheMap) :
        cacheMap[f[1]].cachedThumbnails[f[2]].data = disk[f]

\* C32: on the on-demand backend a thumbnail in memory and the cache file of
\* the same (item, bucket) hold identical bytes, and a cache file that stays
\* in the folder is never rewritten.
C32_Step ==
    /\ Instance' = "ffmpeg" => MemoryMatchesDisk'
    /\ \A f \in DOMAIN disk \cap DOMAIN disk' : disk'[f] = disk[f]
C32_MemoryIsTheFile == [][C32_Step]_vars

\* a file left behind by a stopped subprocess has been read into memory,
\* next to a complete frame that is in memory and in the folder
C32_Witness ==
    /\ Instance = "ffmpeg"
    /\ lastEvt.op = "get" /\ lastEvt.io = {"cachefile"}
    /\ <<lastEvt.id, lastEvt.ts>> \in DOMAIN disk \cap entriesOf(cacheMap)
    /\ disk[<<lastEvt.id, lastEvt.ts>>] = Truncated(Frame(lastEvt.id, lastEvt.ts))
    /\ \E f \in DOMAIN disk \cap entriesOf(cacheMap) : disk[f] = Frame(f[1], f[2])

\* C33: on the on-demand backend, for every request with a timestamp >= 0
\* and every recorded duration >= 0, durations below 1000 ms included, the
\* bucket key used as seek offset and file name is never negative.
C33_BucketNonNegative ==
    (Generated /\ lastEvt.ms >= 0 /\ RecordedDuration(lastEvt.id) >= 0) =>
        /\ lastEvt.ts >= 0
        /\ \A f \in DOMAIN disk : f[2] >= 0

\* ------------------------------------------------------------------------
\* The restore / ignore buttons of the purge overlay (PurgedMarkerManager.js)
\* ------------------------------------------------------------------------
\* the owners of a PurgeOptions, and the two server requests
Owners == {"row", "bulk"}
Requests == {"restore", "ignore"}

\* the class 'hidden' of the four buttons: as addButtons creates them and as
\* #onIgnoreCancel leaves them, and as #onIgnoreClick leaves them
MainView == [restore |-> FALSE, ignore |-> FALSE, confirm |-> TRUE, cancel |-> TRUE]
ConfirmView == [restore |-> TRUE, ignore |-> TRUE, confirm |-> FALSE, cancel |-> FALSE]

\* a new PurgeOptions of an owner: no operation, no request in flight, no
\* animation queued; the cells of a row show the marker
NewPurge(kind) ==
    [kind |-> kind, inOperation |-> FALSE, hidden |-> MainView, flight |-> <<>>,
     anims |-> <<>>, row |-> IF kind = "row" THEN "data" ELSE "none",
     gone |-> FALSE, thrown |-> FALSE, clicks |-> MaxClicks, failed |-> "none",
     last |-> [evt |-> "none", sent |-> FALSE, changed |-> FALSE]]

\* the cells of a PurgeRow: "data" (the marker), "message" (one spanning
\* cell), "garbled" (anything else); a bulk action has no cells ("none")
showRowMessage(row) ==
    IF row = "data" THEN "message" ELSE IF row = "none" THEN "none" ELSE "garbled"
restoreTableData(row) == IF row = "message" THEN "data" ELSE row
ignoreFailedText(row) == IF row = "data" THEN "garbled" ELSE row

\* variant: an operation may always begin
enterOk_always(inOperation) == TRUE

\* #enterOperation: whether it is okay to begin the operation
enterOk(inOperation) == ~inOperation

\* resetViewState: #exitOperation, then #onIgnoreCancel with the owner's
\* callback
resetViewState(po) ==
    [po EXCEPT !.inOperation = FALSE, !.hidden = MainView,
               !.row = restoreTableData(@)]

\* whether the failure callback handed to PurgeActionInfo runs with its owner
\* as this: BulkPurgeAction passes #onIgnoreFailed without bind
failureFnBound(kind, request) == ~(kind = "bulk" /\ request = "ignore")

\* the thumbnail subsystem, which the purge view leaves alone
thumbVars == <<tick, cacheMap, lastOp, watch, since, rankAtTouch, Instance, usePrecise,
               chosen, calls, budget, present, mtime, mediaDuration, bifFile, disk,
               lastEvt, lastHas>>

\* the user can click a button that is shown
CanClick(button) ==
    /\ purge.kind # "none"
    /\ ~purge.gone
    /\ purge.clicks > 0
    /\ ~purge.hidden[button]

\* observation of a click: did it send a request, did it change the buttons
Clicked(po, evt, sent, changed) ==
    [po EXCEPT !.clicks = @ - 1, !.failed = "none",
               !.last = [evt |-> evt, sent |-> sent, changed |-> changed]]

\* #onRestore / #onIgnoreConfirm up to the await of the server command
SendRequest(button, request) ==
    /\ CanClick(button)
    /\ purge' = IF enterOk(purge.inOperation)
                THEN [Clicked(purge, button, TRUE, FALSE) EXCEPT
                        !.inOperation = TRUE, !.flight = Append(@, request)]
                ELSE Clicked(purge, button, FALSE, FALSE)
    /\ UNCHANGED thumbVars

RestoreClick == SendRequest("restore", "restore")
ConfirmClick == SendRequest("confirm", "ignore")

\* #onIgnoreClick, with the owner's callback (PurgeRow.#onIgnore)
IgnoreClick ==
    /\ CanClick("ignore")
    /\ purge' = IF purge.inOperation
                THEN Clicked(purge, "ignore", FALSE, FALSE)
                ELSE [Clicked(purge, "ignore", FALSE, TRUE) EXCEPT
                        !.hidden = ConfirmView, !.row = showRowMessage(@)]
    /\ UNCHANGED thumbVars

\* #onIgnoreCancel, with the owner's callback (PurgeRow.#onIgnoreCancel)
CancelClick ==
    /\ CanClick("cancel")
    /\ purge' = [Clicked(purge, "cancel", FALSE, TRUE) EXCEPT
                    !.hidden = MainView, !.row = restoreTableData(@)]
    /\ UNCHANGED thumbVars

\* the success callbacks: the owner queues its animation, whose end removes
\* the row or reports the handled group
Succeeded(po) ==
    [po EXCEPT !.anims = Append(@, IF po.kind = "row" THEN "removeSelf" ELSE "success"),
               !.last = [evt |-> "succeeded", sent |-> FALSE, changed |-> FALSE]]

\* the catch branch of #onRestore / #onIgnoreConfirm: failureFn() of the
\* owner; an unbound BulkPurgeAction.#onIgnoreFailed throws on this.#html
\* before it queues anything
Failed(po, request) ==
    LET f == [po EXCEPT !.failed = request,
                        !.last = [evt |-> "failed", sent |-> FALSE, changed |-> FALSE]]
    IN IF ~failureFnBound(po.kind, request)
       THEN [f EXCEPT !.thrown = TRUE]
       ELSE IF po.kind = "bulk" /\ request = "restore"
       THEN [resetViewState(f) EXCEPT !.anims = Append(@, "nothing")]
       ELSE IF request = "restore"
       THEN [f EXCEPT !.row = showRowMessage(@), !.anims = Append(@, "resetView")]
       ELSE [f EXCEPT !.row = ignoreFailedText(@), !.anims = Append(@, "resetView")]

\* the server answers the request in flight
Respond(ok) ==
    /\ purge.kind # "none"
    /\ purge.flight # <<>>
    /\ LET po == [purge EXCEPT !.flight = Tail(@)]
       IN purge' = IF ok THEN Succeeded(po) ELSE Failed(po, Head(purge.flight))
    /\ UNCHANGED thumbVars

\* the oldest queued animation of the owner ends and runs its callback
AnimationDone ==
    /\ purge.kind # "none"
    /\ purge.anims # <<>>
    /\ LET cb == Head(purge.anims)
           po == [purge EXCEPT !.anims = Tail(@),
                    !.last = [evt |-> cb, sent |-> FALSE, changed |-> FALSE]]
       IN purge' = IF cb = "removeSelf" THEN [po EXCEPT !.gone = TRUE]
                   ELSE IF cb = "resetView" THEN resetViewState(po)
                   ELSE po
    /\ UNCHANGED thumbVars

\* A purge overlay with one PurgeOptions, of a row or of a bulk action; no
\* thumbnail manager is involved.
PurgeInit ==
    /\ tick = 0
    /\ cacheMap = <<>>
    /\ lastOp = NoOp
    /\ watch = <<1, 0>>
    /\ since = 0
    /\ rankAtTouch = 0
    /\ Instance = "null"
    /\ usePrecise = FALSE
    /\ chosen = "null"
    /\ calls = [p \in Procs |-> IdleCall]
    /\ budget = 0
    /\ present = {}
    /\ mtime = [q \in Paths |-> 1]
    /\ mediaDuration = [q \in Paths |-> DurationOf(q)]
    /\ bifFile = [q \in Paths |-> <<>>]
    /\ disk = <<>>
    /\ lastEvt = NoEvt
    /\ lastHas = [id \in Items |-> "none"]
    /\ \E kind \in Owners : purge = NewPurge(kind)

PurgeNext ==
    \/ RestoreClick
    \/ IgnoreClick
    \/ ConfirmClick
    \/ CancelClick
    \/ \E ok \in BOOLEAN : Respond(ok)
    \/ AnimationDone

SpecPurge == PurgeInit /\ [][PurgeNext]_vars

\* the step is a click on a button while a request is in flight
ClickInFlight(button) ==
    /\ purge.flight # <<>>
    /\ purge'.last.evt = button
    /\ purge'.clicks = purge.clicks - 1

\* C34: at most one restore / ignore request of a PurgeOptions is outstanding
\* at any time: a Restore or Confirm click that arrives while a request is in
\* flight sends none, and an Ignore click during that time leaves the
\* visible buttons as they are.
C34_Step ==
    /\ Len(purge'.flight) <= 1
    /\ (ClickInFlight("restore") \/ ClickInFlight("confirm")) =>
          purge'.flight = purge.flight /\ ~purge'.last.sent
    /\ ClickInFlight("ignore") => purge'.hidden = purge.hidden
C34_OneRequestInFlight == [][C34_Step]_vars

\* a Restore click has been dropped while the ignore request of the same
\* buttons was in flight (the user had cancelled the prompt meanwhile)
C34_Witness ==
    /\ purge.kind # "none"
    /\ purge.flight = <<"ignore">>
    /\ purge.last.evt = "restore" /\ ~purge.last.sent

\* C35: after a failed restore or ignore request, of a row or of a bulk
\* action, once the failure animation is over the view is reset: the
\* in-operation flag is false, Restore and Ignore are shown and the confirm
\* and cancel buttons hidden (as long as the user has not clicked since).
C35_ResetAfterFailure ==
    (purge.kind # "none" /\ purge.failed # "none" /\ purge.anims = <<>>) =>
        /\ ~purge.inOperation
        /\ purge.hidden = MainView

====
